---- MODULE Spec2Model ----
(***************************************************************************)
(* Jogo das Cores (src/JogodasCores/DesafioModulo3.cpp): the colour grid,  *)
(* the two GLFW callbacks and the main loop, as a state machine.           *)
(*                                                                         *)
(* The source fixes ROWS = 6 and COLS = 8 at compile time.  The model      *)
(* carries them as the state components rows and cols, set once by Init    *)
(* and never changed, and explores the grid shapes in Shapes.  Colours     *)
(* are the three rand() % 256 draws of a cell; the float the source        *)
(* stores (draw / 255.0f) and every float operation of the similarity      *)
(* test are computed in IEEE-754 binary32 with round-to-nearest-even.      *)
(***************************************************************************)
EXTENDS Integers, Sequences, FiniteSets, TLC

(***************************************************************************)
(* Program constants.                                                      *)
(***************************************************************************)
QUAD_W == 100
QUAD_H == 100

\* The GLFW codes the callbacks test.
GLFW_MOUSE_BUTTON_LEFT == 0
GLFW_PRESS == 1
GLFW_KEY_ESCAPE == 256
GLFW_KEY_R == 82

\* The codes the window delivers: left and right button; release and
\* press; ESC, R and the space bar.
Buttons == {GLFW_MOUSE_BUTTON_LEFT, GLFW_MOUSE_BUTTON_LEFT + 1}
Actions == {GLFW_PRESS - 1, GLFW_PRESS}
Keys == {GLFW_KEY_ESCAPE, GLFW_KEY_R, 32}

(***************************************************************************)
(* Bounds of the model.                                                    *)
(***************************************************************************)
\* How many colours of PaletteSeq the random generator may draw.
NumColors == 4

\* The largest step between the colours of neighbouring cells in the
\* colourings the random generator may produce (see Colorings).
MaxStride == 2

\* The grid shapes explored, <<rows, cols>>.
Shapes == {<<2, 2>>, <<1, 3>>}

\* Colours as <<r, g, b>> levels in 0..255.  Levels 0 and 51 differ by
\* exactly the tolerance on every channel, as do 100 and 151; 51 and 100 are
\* within it; 0 and 100 are beyond it.
PaletteSeq ==
    << <<0, 0, 0>>, <<51, 51, 51>>, <<100, 100, 100>>, <<151, 151, 151>>,
       <<255, 255, 255>> >>

Palette == {PaletteSeq[i] : i \in 1..NumColors}

\* The colours of the 2 x 2 scenario of the specification: (1,0,0),
\* (1,0,0), (0,0,1), (0,1,0) at (0,0), (0,1), (1,0), (1,1).
ScenarioGrid ==
    [c \in (0..1) \X (0..1) |->
        IF c[1] = 0 THEN <<255, 0, 0>>
        ELSE IF c[2] = 0 THEN <<0, 0, 255>> ELSE <<0, 255, 0>>]

\* Every colour a cell of the model can have.
AllColors ==
    {PaletteSeq[i] : i \in 1..Len(PaletteSeq)}
        \cup {ScenarioGrid[c] : c \in DOMAIN ScenarioGrid}

(***************************************************************************)
(* IEEE-754 binary32 arithmetic on non-negative values.  A float is        *)
(* <<m, e>>, standing for m * 2^e, with m = 0 or 2^23 <= m < 2^24.  Every  *)
(* operation computes the exact result and rounds it to nearest, ties to   *)
(* even.  Intermediate integers stay below 2^31: a wide value is held as   *)
(* hi * 2^24 + lo.  The operands of the program are colour channels in     *)
(* [0, 1] and the constants 3, 0.2 and 255, so neither overflow nor        *)
(* subnormal results arise.                                                *)
(***************************************************************************)
Two23 == 2^23
Two24 == 2^24

FZero == <<0, 0>>

\* Round the 24-bit significand m (weight 2^e) given the next bit and
\* whether any lower bit is set.
RoundNE(m, e, rnd, sticky) ==
    IF rnd = 1 /\ (sticky \/ m % 2 = 1)
    THEN IF m + 1 = Two24 THEN <<Two23, e + 1>> ELSE <<m + 1, e>>
    ELSE <<m, e>>

\* Round (hi * 2^24 + lo) * 2^e, with 0 <= lo < 2^24.
RECURSIVE RoundHL(_, _, _, _)
RoundHL(hi, lo, e, sticky) ==
    IF hi = 0 /\ lo = 0 THEN FZero
    ELSE IF hi >= Two24
    THEN RoundHL(hi \div 2, (hi % 2) * Two23 + lo \div 2, e + 1,
                 sticky \/ lo % 2 = 1)
    ELSE IF hi < Two23
    THEN RoundHL(hi * 2 + lo \div Two23, (lo % Two23) * 2, e - 1, sticky)
    ELSE RoundNE(hi, e + 24, lo \div Two23, sticky \/ lo % Two23 # 0)

\* float(n) for an integer 0 <= n < 2^24: exact.
IntToFloat(n) == RoundHL(0, n, 0, FALSE)

\* The value m * 2^s as <<hi, lo>>, for 0 <= s <= 30.
ShiftHL(m, s) ==
    IF s <= 24
    THEN <<m \div 2^(24 - s), (m % 2^(24 - s)) * 2^s>>
    ELSE <<m * 2^(s - 24), 0>>

FLeq(a, b) ==
    \/ a[1] = 0
    \/ /\ b[1] # 0
       /\ \/ a[2] < b[2]
          \/ a[2] = b[2] /\ a[1] <= b[1]

\* a + b.
FAdd(a, b) ==
    IF a[1] = 0 THEN b
    ELSE IF b[1] = 0 THEN a
    ELSE LET x == IF a[2] >= b[2] THEN a ELSE b
             y == IF a[2] >= b[2] THEN b ELSE a
             s == x[2] - y[2]
         IN IF s > 25 THEN x
            ELSE LET A == ShiftHL(x[1], s)
                     lo == A[2] + y[1]
                 IN RoundHL(A[1] + lo \div Two24, lo % Two24, y[2], FALSE)

\* |a - b|.
FAbsDiff(a, b) ==
    LET x == IF FLeq(b, a) THEN a ELSE b
        y == IF FLeq(b, a) THEN b ELSE a
    IN IF y[1] = 0 THEN x
       ELSE LET s == x[2] - y[2]
                A == ShiftHL(x[1], s)
            IN IF A[2] >= y[1]
               THEN RoundHL(A[1], A[2] - y[1], y[2], FALSE)
               ELSE RoundHL(A[1] - 1, A[2] + Two24 - y[1], y[2], FALSE)

\* a * b.
FMul(a, b) ==
    IF a[1] = 0 \/ b[1] = 0 THEN FZero
    ELSE LET ah == a[1] \div 4096
             al == a[1] % 4096
             bh == b[1] \div 4096
             bl == b[1] % 4096
             mid == ah * bl + al * bh
             lo == al * bl + (mid % 4096) * 4096
             hi == ah * bh + mid \div 4096 + lo \div Two24
         IN RoundHL(hi, lo % Two24, a[2] + b[2], FALSE)

\* k steps of binary long division: <<quotient, remainder>>.
RECURSIVE LongDiv(_, _, _, _)
LongDiv(q, r, d, k) ==
    IF k = 0 THEN <<q, r>>
    ELSE IF 2 * r >= d
    THEN LongDiv(2 * q + 1, 2 * r - d, d, k - 1)
    ELSE LongDiv(2 * q, 2 * r, d, k - 1)

\* a / b, b # 0.
FDiv(a, b) ==
    IF a[1] = 0 THEN FZero
    ELSE LET k == IF a[1] >= b[1] THEN 24 ELSE 25
             Q == LongDiv(a[1] \div b[1], a[1] % b[1], b[1], k)
         IN RoundNE(Q[1] \div 2, a[2] - b[2] - k + 1, Q[1] % 2, Q[2] # 0)

\* Bit j of m * 2^k, for a 24-bit m.
BitOf(m, k, j) ==
    IF j < k \/ j - k > 23 THEN 0 ELSE (m \div 2^(j - k)) % 2

\* Digit-by-digit square root of m * 2^k, two bits of the radicand per
\* step, from bit pair i down to pair 0: <<root, remainder>>.
RECURSIVE SqrtDigits(_, _, _, _, _)
SqrtDigits(m, k, i, root, rem) ==
    IF i < 0 THEN <<root, rem>>
    ELSE LET r == rem * 4 + 2 * BitOf(m, k, 2 * i + 1) + BitOf(m, k, 2 * i)
             t == root * 4 + 1
         IN IF r >= t
            THEN SqrtDigits(m, k, i - 1, root * 2 + 1, r - t)
            ELSE SqrtDigits(m, k, i - 1, root * 2, r)

\* sqrtf(a).
FSqrt(a) ==
    IF a[1] = 0 THEN FZero
    ELSE LET k == IF (a[2] - 25) % 2 = 0 THEN 25 ELSE 26
             R == SqrtDigits(a[1], k, 24, 0, 0)
         IN RoundNE(R[1] \div 2, (a[2] - k) \div 2 + 1, R[1] % 2, R[2] # 0)

(***************************************************************************)
(* The similarity test of eliminarSimilares.                               *)
(***************************************************************************)
\* The channel resetGame stores for a draw n: float(n) / 255.0f.
Channel(n) == FDiv(IntToFloat(n), IntToFloat(255))

\* const float dMax = sqrt(3.0f).
dMax == FSqrt(IntToFloat(3))

\* const float COLOR_TOLERANCE = 0.2f: the float nearest to 2/10.
COLOR_TOLERANCE == FDiv(IntToFloat(2), IntToFloat(10))

\* (c.x - target.x) * (c.x - target.x) for one channel.
SqDiff(cn, tn) ==
    LET d == FAbsDiff(Channel(cn), Channel(tn)) IN FMul(d, d)

\* dist / dMax for the colours c and target.
NormalizedDist(c, target) ==
    LET dist == FSqrt(FAdd(FAdd(SqDiff(c[1], target[1]),
                                SqDiff(c[2], target[2])),
                           SqDiff(c[3], target[3])))
    IN FDiv(dist, dMax)

\* NormalizedDist over the colours of the model, computed once, as the set
\* of <<<<c, target>>, distance>>.
DistTable ==
    {<<p, NormalizedDist(p[1], p[2])>> : p \in AllColors \X AllColors}

\* normalizedDist <= toleranciaNormalized.
Similar(c, target, toleranciaNormalized) ==
    FLeq((CHOOSE d \in DistTable : d[1] = <<c, target>>)[2],
         toleranciaNormalized)

(***************************************************************************)
(* State.                                                                  *)
(***************************************************************************)
VARIABLES
    rows,         \* ROWS
    cols,         \* COLS
    position,     \* grid[i][j].position, as <<x, y>>
    dimensions,   \* grid[i][j].dimensions, as <<w, h>>
    color,        \* grid[i][j].color, as the three draws <<r, g, b>>
    eliminated,   \* grid[i][j].eliminated
    attempts,
    score,
    gameOver,
    iSelected,
    title,        \* what updateWindowTitle last wrote to the window
    shouldClose,  \* the window's close flag
    pc,           \* where main is: "poll", "render" or "done"
    frame,        \* the cells drawn by the last pass of the render loop
    unresolved,   \* history: indices of the cells clicked validly since the
                  \* poll began or the game was last reset, and still
                  \* active after the resolution step
    pollIgnorable \* history: every event of this poll was a click outside
                  \* the grid's pixel area, on an eliminated cell or while
                  \* the game was over, or changed nothing by its kind

gridVars == <<rows, cols, position, dimensions, color, eliminated>>
gameVars == <<attempts, score, gameOver, iSelected, title>>
histVars == <<unresolved, pollIgnorable>>
vars == <<gridVars, gameVars, shouldClose, pc, frame, histVars>>

\* The index set of grid[r][c].
GridCells(r, c) == (0..(r - 1)) \X (0..(c - 1))

Cells == GridCells(rows, cols)

\* The colourings rand() may produce for an r x c grid: the cell with linear
\* index n gets colour number first + n * stride of the palette, counted
\* cyclically.  Stride 0 gives the grids of one colour.
Colorings(r, c) ==
    {[x \in GridCells(r, c) |->
         PaletteSeq[((first + (x[1] * c + x[2]) * stride) % NumColors) + 1]] :
     first \in 0..(NumColors - 1), stride \in 0..MaxStride}

\* Cursor positions delivered with a click on a grid of n cells of size q
\* along one axis: left of the grid, the centre of every cell, a pixel in the
\* first fifth of every cell but the first, and two pixels past the grid.
CursorCoords(n, q) ==
    {-(q \div 2) - 10, -10, n * q + 20, n * q + (q \div 2) + 10}
        \cup {k * q + q \div 2 : k \in 0..(n - 1)}
        \cup {k * q + 20 : k \in 1..(n - 1)}

\* static_cast<int>(a / b) for integral a and b > 0: truncation toward 0.
TruncDiv(a, b) == IF a >= 0 THEN a \div b ELSE -((-a) \div b)

Max(a, b) == IF a >= b THEN a ELSE b

(***************************************************************************)
(* updateWindowTitle, anyActiveCell, eliminarSimilares, resetGame.         *)
(***************************************************************************)
\* Mutant: the end-of-game text is never appended.
updateWindowTitle_noEndText(sc, att, over) ==
    [score |-> sc, attempts |-> att, fim |-> FALSE]

\* The title for the given counters: score, attempts and whether the
\* end-of-game text is appended.
updateWindowTitle(sc, att, over) ==
    [score |-> sc, attempts |-> att, fim |-> over]

\* Mutant: the scan stops after the first row.
anyActiveCell_firstRow(elim) == \E c \in DOMAIN elim : c[1] = 0 /\ ~elim[c]

anyActiveCell(elim) == \E c \in DOMAIN elim : ~elim[c]

\* Mutant: the penalty is 1 for every attempt.
ScoreAfter_fixedPenalty(sc, removedCount, penalty) ==
    Max(sc + (removedCount - 1), 0)

\* Mutant: the score is not clamped.
ScoreAfter_noClamp(sc, removedCount, penalty) ==
    sc + (removedCount - penalty)

\* Mutant: no penalty is subtracted.
ScoreAfter_noPenalty(sc, removedCount, penalty) ==
    Max(sc + removedCount, 0)

\* score += (removedCount - penalty); if (score < 0) score = 0;
ScoreAfter(sc, removedCount, penalty) ==
    Max(sc + (removedCount - penalty), 0)

\* Mutant: the flags are rewritten from the scan alone, so a cell eliminated
\* earlier and not similar to the target is active again.
eliminarSimilares_rewrite(elim, sel, toleranciaNormalized) ==
    IF sel < 0 THEN [eliminated |-> elim, removedCount |-> 0, iSelected |-> sel]
    ELSE LET row == sel \div cols
             col == sel % cols
             target == color[<<row, col>>]
             hits == {c \in Cells :
                         /\ c # <<row, col>>
                         /\ Similar(color[c], target, toleranciaNormalized)}
         IN [eliminated |-> [c \in Cells |-> c = <<row, col>> \/ c \in hits],
             removedCount |-> 1 + Cardinality(hits),
             iSelected |-> -1]

\* Mutant: the count starts at 0, so the selected cell is not counted.
eliminarSimilares_countFromZero(elim, sel, toleranciaNormalized) ==
    IF sel < 0 THEN [eliminated |-> elim, removedCount |-> 0, iSelected |-> sel]
    ELSE LET row == sel \div cols
             col == sel % cols
             marked == [elim EXCEPT ![<<row, col>>] = TRUE]
             target == color[<<row, col>>]
             hits == {c \in Cells :
                         /\ ~marked[c]
                         /\ Similar(color[c], target, toleranciaNormalized)}
         IN [eliminated |-> [c \in Cells |-> marked[c] \/ c \in hits],
             removedCount |-> Cardinality(hits),
             iSelected |-> -1]

\* Mutant: the selected cell itself is not marked; only the cells the scan
\* finds are.
eliminarSimilares_keepSelected(elim, sel, toleranciaNormalized) ==
    IF sel < 0 THEN [eliminated |-> elim, removedCount |-> 0, iSelected |-> sel]
    ELSE LET row == sel \div cols
             col == sel % cols
             target == color[<<row, col>>]
             hits == {c \in Cells :
                         /\ ~elim[c]
                         /\ c # <<row, col>>
                         /\ Similar(color[c], target, toleranciaNormalized)}
         IN [eliminated |-> [c \in Cells |-> elim[c] \/ c \in hits],
             removedCount |-> 1 + Cardinality(hits),
             iSelected |-> -1]

\* The grid and the count eliminarSimilares returns, for the selection sel.
eliminarSimilares(elim, sel, toleranciaNormalized) ==
    IF sel < 0 THEN [eliminated |-> elim, removedCount |-> 0, iSelected |-> sel]
    ELSE LET row == sel \div cols
             col == sel % cols
             marked == [elim EXCEPT ![<<row, col>>] = TRUE]
             target == color[<<row, col>>]
             hits == {c \in Cells :
                         /\ ~marked[c]
                         /\ Similar(color[c], target, toleranciaNormalized)}
         IN [eliminated |-> [c \in Cells |-> marked[c] \/ c \in hits],
             removedCount |-> 1 + Cardinality(hits),
             iSelected |-> -1]

\* Mutant: gameOver is not cleared.
resetGame_keepGameOver(newColor) ==
    /\ attempts' = 0
    /\ score' = 0
    /\ gameOver' = gameOver
    /\ iSelected' = -1
    /\ position' = [c \in Cells |->
                        <<c[2] * QUAD_W + QUAD_W \div 2,
                          c[1] * QUAD_H + QUAD_H \div 2>>]
    /\ dimensions' = [c \in Cells |-> <<QUAD_W, QUAD_H>>]
    /\ color' = newColor
    /\ eliminated' = [c \in Cells |-> FALSE]
    /\ title' = updateWindowTitle(0, 0, gameOver)

\* Mutant: the selection is not cleared.
resetGame_keepSelection(newColor) ==
    /\ attempts' = 0
    /\ score' = 0
    /\ gameOver' = FALSE
    /\ iSelected' = iSelected
    /\ position' = [c \in Cells |->
                        <<c[2] * QUAD_W + QUAD_W \div 2,
                          c[1] * QUAD_H + QUAD_H \div 2>>]
    /\ dimensions' = [c \in Cells |-> <<QUAD_W, QUAD_H>>]
    /\ color' = newColor
    /\ eliminated' = [c \in Cells |-> FALSE]
    /\ title' = updateWindowTitle(0, 0, FALSE)

\* Mutant: the centre is computed with the row and the column exchanged.
resetGame_transposed(newColor) ==
    /\ attempts' = 0
    /\ score' = 0
    /\ gameOver' = FALSE
    /\ iSelected' = -1
    /\ position' = [c \in Cells |->
                        <<c[1] * QUAD_W + QUAD_W \div 2,
                          c[2] * QUAD_H + QUAD_H \div 2>>]
    /\ dimensions' = [c \in Cells |-> <<QUAD_W, QUAD_H>>]
    /\ color' = newColor
    /\ eliminated' = [c \in Cells |-> FALSE]
    /\ title' = updateWindowTitle(0, 0, FALSE)

\* resetGame, with newColor the colours drawn from rand().
resetGame(newColor) ==
    /\ attempts' = 0
    /\ score' = 0
    /\ gameOver' = FALSE
    /\ iSelected' = -1
    /\ position' = [c \in Cells |->
                        <<c[2] * QUAD_W + QUAD_W \div 2,
                          c[1] * QUAD_H + QUAD_H \div 2>>]
    /\ dimensions' = [c \in Cells |-> <<QUAD_W, QUAD_H>>]
    /\ color' = newColor
    /\ eliminated' = [c \in Cells |-> FALSE]
    /\ title' = updateWindowTitle(0, 0, FALSE)

(***************************************************************************)
(* Initial state: main has created the window and called resetGame.        *)
(***************************************************************************)
InitGrid(r, c, newColor) ==
    /\ rows = r
    /\ cols = c
    /\ attempts = 0
    /\ score = 0
    /\ gameOver = FALSE
    /\ iSelected = -1
    /\ position = [x \in GridCells(r, c) |->
                       <<x[2] * QUAD_W + QUAD_W \div 2,
                         x[1] * QUAD_H + QUAD_H \div 2>>]
    /\ dimensions = [x \in GridCells(r, c) |-> <<QUAD_W, QUAD_H>>]
    /\ color = newColor
    /\ eliminated = [x \in GridCells(r, c) |-> FALSE]
    /\ title = updateWindowTitle(0, 0, FALSE)
    /\ shouldClose = FALSE
    /\ pc = "poll"
    /\ frame = {}
    /\ unresolved = {}
    /\ pollIgnorable = TRUE

Init ==
    \E sh \in Shapes : \E newColor \in Colorings(sh[1], sh[2]) :
        InitGrid(sh[1], sh[2], newColor)

(***************************************************************************)
(* The callbacks, delivered by glfwPollEvents.                             *)
(***************************************************************************)
\* Mutant: the half cell is not subtracted.
ClickCol_noOffset(xpos) == TruncDiv(xpos, QUAD_W)

\* Mutant: a whole cell is subtracted instead of half a cell.
ClickCol_fullOffset(xpos) == TruncDiv(xpos - QUAD_W, QUAD_W)

\* The cell mouse_button_callback computes for the cursor position.
ClickCol(xpos) == TruncDiv(xpos - QUAD_W \div 2, QUAD_W)
ClickRow(ypos) == TruncDiv(ypos - QUAD_H \div 2, QUAD_H)

\* Mutant: the column count and the row count are exchanged.
LinearIndex_swapped(row, col) == col * rows + row

\* row * COLS + col.
LinearIndex(row, col) == row * cols + col

\* Mutant: the eliminated flag of the cell is not tested.
ClickSelects_noEliminatedTest(button, action, xpos, ypos) ==
    /\ button = GLFW_MOUSE_BUTTON_LEFT
    /\ action = GLFW_PRESS
    /\ ~gameOver
    /\ ClickCol(xpos) >= 0 /\ ClickCol(xpos) < cols
    /\ ClickRow(ypos) >= 0 /\ ClickRow(ypos) < rows

\* The click passes every test of mouse_button_callback.
ClickSelects(button, action, xpos, ypos) ==
    /\ button = GLFW_MOUSE_BUTTON_LEFT
    /\ action = GLFW_PRESS
    /\ ~gameOver
    /\ ClickCol(xpos) >= 0 /\ ClickCol(xpos) < cols
    /\ ClickRow(ypos) >= 0 /\ ClickRow(ypos) < rows
    /\ ~eliminated[<<ClickRow(ypos), ClickCol(xpos)>>]

\* The cursor is outside the pixel area the grid covers.
OutsideGrid(xpos, ypos) ==
    xpos < 0 \/ ypos < 0 \/ xpos >= cols * QUAD_W \/ ypos >= rows * QUAD_H

\* A click the specification calls invalid.
InvalidClick(xpos, ypos) ==
    \/ gameOver
    \/ OutsideGrid(xpos, ypos)
    \/ eliminated[<<ClickRow(ypos), ClickCol(xpos)>>]

mouse_button_callback(button, action, xpos, ypos) ==
    /\ pc = "poll"
    /\ iSelected' = IF ClickSelects(button, action, xpos, ypos)
                    THEN LinearIndex(ClickRow(ypos), ClickCol(xpos))
                    ELSE iSelected
    /\ unresolved' = IF ClickSelects(button, action, xpos, ypos)
                     THEN unresolved \cup {ClickRow(ypos) * cols + ClickCol(xpos)}
                     ELSE unresolved
    /\ pollIgnorable' =
           IF button = GLFW_MOUSE_BUTTON_LEFT /\ action = GLFW_PRESS
           THEN pollIgnorable /\ InvalidClick(xpos, ypos)
           ELSE pollIgnorable
    /\ UNCHANGED <<gridVars, attempts, score, gameOver, title, shouldClose,
                   pc, frame>>

key_callback(key, action, newColor) ==
    /\ pc = "poll"
    /\ IF key = GLFW_KEY_ESCAPE /\ action = GLFW_PRESS
       THEN /\ shouldClose' = TRUE
            /\ UNCHANGED <<gridVars, gameVars, histVars>>
       ELSE IF key = GLFW_KEY_R /\ action = GLFW_PRESS
       THEN /\ resetGame(newColor)
            /\ pollIgnorable' = FALSE
            /\ unresolved' = {}
            /\ UNCHANGED <<rows, cols, shouldClose>>
       ELSE UNCHANGED <<gridVars, gameVars, shouldClose, histVars>>
    /\ UNCHANGED <<pc, frame>>

(***************************************************************************)
(* The main loop.                                                          *)
(***************************************************************************)
\* Mutant: attempts is incremented only when the pass removes more than the
\* selected cell.
ResolveSelection_attemptsWhenMany ==
    /\ pc = "poll"
    /\ IF iSelected >= 0 /\ ~gameOver
       THEN LET res == eliminarSimilares(eliminated, iSelected, COLOR_TOLERANCE)
                att == IF res.removedCount > 1 THEN attempts + 1 ELSE attempts
                penalty == att
                sc == IF res.removedCount > 0
                      THEN ScoreAfter(score, res.removedCount, penalty)
                      ELSE score
                over == IF ~anyActiveCell(res.eliminated) THEN TRUE ELSE gameOver
            IN /\ eliminated' = res.eliminated
               /\ attempts' = att
               /\ score' = sc
               /\ gameOver' = over
               /\ title' = updateWindowTitle(sc, att, over)
               /\ iSelected' = -1
               /\ unresolved' =
                      {n \in unresolved :
                          ~res.eliminated[<<n \div cols, n % cols>>]}
       ELSE UNCHANGED <<eliminated, gameVars, unresolved>>
    /\ pollIgnorable' = TRUE
    /\ pc' = "render"
    /\ UNCHANGED <<rows, cols, position, dimensions, color, shouldClose, frame>>

\* glfwPollEvents returns and the selection, if any, is resolved.
ResolveSelection ==
    /\ pc = "poll"
    /\ IF iSelected >= 0 /\ ~gameOver
       THEN LET res == eliminarSimilares(eliminated, iSelected, COLOR_TOLERANCE)
                att == IF res.removedCount > 0 THEN attempts + 1 ELSE attempts
                penalty == att
                sc == IF res.removedCount > 0
                      THEN ScoreAfter(score, res.removedCount, penalty)
                      ELSE score
                over == IF ~anyActiveCell(res.eliminated) THEN TRUE ELSE gameOver
            IN /\ eliminated' = res.eliminated
               /\ attempts' = att
               /\ score' = sc
               /\ gameOver' = over
               /\ title' = updateWindowTitle(sc, att, over)
               /\ iSelected' = -1
               /\ unresolved' =
                      {n \in unresolved :
                          ~res.eliminated[<<n \div cols, n % cols>>]}
       ELSE UNCHANGED <<eliminated, gameVars, unresolved>>
    /\ pollIgnorable' = TRUE
    /\ pc' = "render"
    /\ UNCHANGED <<rows, cols, position, dimensions, color, shouldClose, frame>>

\* The grid is drawn, the buffers are swapped and the loop condition is
\* tested.
RenderFrame ==
    /\ pc = "render"
    /\ frame' = {c \in Cells : ~eliminated[c]}
    /\ pc' = IF shouldClose THEN "done" ELSE "poll"
    /\ unresolved' = {}
    /\ UNCHANGED <<gridVars, gameVars, shouldClose, pollIgnorable>>

(***************************************************************************)
(* The events the window delivers during a poll.                           *)
(***************************************************************************)
\* The left button is pressed with the cursor at <<x, y>>.
LeftClick ==
    \E x \in CursorCoords(cols, QUAD_W), y \in CursorCoords(rows, QUAD_H) :
        mouse_button_callback(GLFW_MOUSE_BUTTON_LEFT, GLFW_PRESS, x, y)

\* Any other mouse button event.
OtherMouseEvent ==
    \E b \in Buttons, a \in Actions :
        /\ ~(b = GLFW_MOUSE_BUTTON_LEFT /\ a = GLFW_PRESS)
        /\ mouse_button_callback(b, a, QUAD_W \div 2, QUAD_H \div 2)

\* R is pressed: the callback runs resetGame.
RestartKey ==
    \E newColor \in Colorings(rows, cols) :
        key_callback(GLFW_KEY_R, GLFW_PRESS, newColor)

\* ESC is pressed.
EscapeKey == key_callback(GLFW_KEY_ESCAPE, GLFW_PRESS, color)

\* Any other key event.
OtherKeyEvent ==
    \E k \in Keys, a \in Actions :
        /\ ~(a = GLFW_PRESS /\ k \in {GLFW_KEY_ESCAPE, GLFW_KEY_R})
        /\ key_callback(k, a, color)

Next ==
    \/ LeftClick
    \/ OtherMouseEvent
    \/ RestartKey
    \/ EscapeKey
    \/ OtherKeyEvent
    \/ ResolveSelection
    \/ RenderFrame

Spec == Init /\ [][Next]_vars

(***************************************************************************)
(* The 2 x 2 scenario of the specification: the same program, started on   *)
(* the scenario's grid.                                                    *)
(***************************************************************************)
ScenarioInit == InitGrid(2, 2, ScenarioGrid)

ScenarioSpec == ScenarioInit /\ [][Next]_vars

(***************************************************************************)
(* A game played without restarting: the program with every event but the  *)
(* R key, and with the progress its main loop guarantees.  While the       *)
(* window is open, glfwPollEvents returns and the resolution block runs,   *)
(* and the frame is then rendered and the loop condition tested.  Nothing  *)
(* is assumed about the clicks and the other events the user produces.     *)
(***************************************************************************)
NextNoRestart ==
    \/ LeftClick
    \/ OtherMouseEvent
    \/ EscapeKey
    \/ OtherKeyEvent
    \/ ResolveSelection
    \/ RenderFrame

LiveSpec ==
    /\ Init
    /\ [][NextNoRestart]_vars
    /\ WF_vars(ResolveSelection)
    /\ WF_vars(RenderFrame)

(***************************************************************************)
(* Vocabulary of the properties.                                           *)
(***************************************************************************)
\* A step in which resetGame runs.
ResetStep == RestartKey

\* A step of the main loop in which an elimination pass runs.
ResolutionStep == ResolveSelection /\ iSelected >= 0 /\ ~gameOver

\* The cell a linear index names.
CellOf(n) == <<n \div cols, n % cols>>

\* The number of cells the step eliminates.
RemovedByStep ==
    Cardinality({c \in Cells : ~eliminated[c] /\ eliminated'[c]})

EliminatedCells == {c \in Cells : eliminated[c]}

\* The sum of the squared differences of the 256-level channels.
SumSq(c, t) ==
    (c[1] - t[1]) * (c[1] - t[1]) + (c[2] - t[2]) * (c[2] - t[2])
        + (c[3] - t[3]) * (c[3] - t[3])

\* The pixel <<x, y>> lies in the rectangle the render loop draws for cell c:
\* the unit quad (-0.5 .. 0.5) scaled by dimensions and moved to position,
\* under the projection that maps window pixels one to one.
DrawnAt(c, x, y) ==
    /\ 2 * position[c][1] - dimensions[c][1] <= 2 * x
    /\ 2 * x < 2 * position[c][1] + dimensions[c][1]
    /\ 2 * position[c][2] - dimensions[c][2] <= 2 * y
    /\ 2 * y < 2 * position[c][2] + dimensions[c][2]

(***************************************************************************)
(* Properties.                                                             *)
(***************************************************************************)
\* C1: Monotonic elimination.  In every step that is not a reset, a cell
\* whose eliminated flag is true keeps it true; the only step that sets an
\* eliminated flag back to false is the one in which resetGame runs.
C1_MonotonicElimination ==
    [][(\E c \in Cells : eliminated[c] /\ ~eliminated'[c]) => ResetStep]_vars

\* A second resolution has run and cells are eliminated.
C1_Witness == attempts >= 2 /\ EliminatedCells # {} /\ pc = "poll"

\* C2: Score formula.  A resolution increments attempts by one and sets the
\* score to max(0, previous score + cells removed - attempts after the
\* increment).
C2_ScoreFormula ==
    [][ResolutionStep =>
          /\ attempts' = attempts + 1
          /\ score' = Max(0, score + RemovedByStep - attempts')]_vars

\* A second resolution has left a positive score.
C2_Witness == attempts >= 2 /\ score > 0

\* C3: The score is never negative.
C3_ScoreNonNegative == score >= 0

\* Two resolutions of one cell each: the second one would give -1.
C3_Witness ==
    attempts = 2 /\ score = 0 /\ Cardinality(EliminatedCells) = 2

\* C4: Game-over trigger.  gameOver goes from false to true exactly in a
\* resolution after which no cell is active, and goes from true to false
\* only in a reset.
C4_GameOverTrigger ==
    [][/\ (~gameOver /\ gameOver')
            <=> (ResolutionStep /\ \A c \in Cells : eliminated'[c])
       /\ (gameOver /\ ~gameOver') => ResetStep]_vars

\* The game is over and the loop has gone round again.
C4_Witness == gameOver /\ pc = "poll" /\ frame = {}

\* C5: Between steps, gameOver is true if and only if every cell is
\* eliminated.
C5_GameOverIffAllEliminated == gameOver <=> \A c \in Cells : eliminated[c]

\* The last resolution has just run.
C5_Witness ==
    gameOver /\ pc = "render" /\ \A c \in Cells : eliminated[c]

\* C6: Tolerance correctness, as claimed.  In a resolution, a cell that was
\* active and is not the selected cell becomes eliminated if and only if the
\* sum of the squared channel differences to the target is at most 7803.
C6_ToleranceAsClaimed ==
    [][ResolutionStep =>
          \A c \in Cells :
              (~eliminated[c] /\ c # CellOf(iSelected)) =>
                  (eliminated'[c]
                      <=> SumSq(color[c], color[CellOf(iSelected)]) <= 7803)]_vars

\* C7: No-op invalid selection, as claimed.  When every event of a poll was
\* a click the specification calls invalid, the resolution step of that
\* iteration leaves score, attempts and the eliminated flags unchanged.
C7_InvalidClickNoOpAsClaimed ==
    [][(ResolveSelection /\ pollIgnorable) =>
          UNCHANGED <<score, attempts, eliminated>>]_vars

\* C8: One resolution per valid click, as claimed.  After the resolution
\* step of an iteration, every click that was valid when delivered has had
\* its cell resolved: none of the clicked cells is still active.
C8_OneResolutionPerClickAsClaimed == pc = "render" => unresolved = {}

\* C9: A set selection is the index of a cell of the grid that is not
\* eliminated, and the game is not over.
C9_SelectionIsActiveCell ==
    iSelected >= 0 =>
        /\ iSelected \in 0..(rows * cols - 1)
        /\ ~eliminated[CellOf(iSelected)]
        /\ ~gameOver

\* A selection is pending in the middle of a game.
C9_Witness == iSelected >= 0 /\ EliminatedCells # {}

\* C10: The scenario.  On the scenario's grid, the click at (50, 50) selects
\* cell 0, whose resolution removes 2 cells and gives attempts = 1 and
\* score = 1; then the click at (50, 150) selects cell 2, whose resolution
\* removes 1 cell and gives attempts = 2 and score = 0; then the click on the
\* remaining cell, at (150, 150), selects cell 3, whose resolution removes it
\* and sets gameOver.
C10_Scenario ==
    [][(rows = 2 /\ cols = 2 /\ color = ScenarioGrid) =>
          /\ (/\ EliminatedCells = {}
              /\ mouse_button_callback(GLFW_MOUSE_BUTTON_LEFT, GLFW_PRESS,
                                       50, 50))
                 => iSelected' = 0
          /\ (ResolutionStep /\ EliminatedCells = {} /\ iSelected = 0)
                 => /\ RemovedByStep = 2
                    /\ eliminated'[<<0, 0>>] /\ eliminated'[<<0, 1>>]
                    /\ attempts' = 1
                    /\ score' = 1
                    /\ ~gameOver'
          /\ (/\ EliminatedCells = {<<0, 0>>, <<0, 1>>}
              /\ mouse_button_callback(GLFW_MOUSE_BUTTON_LEFT, GLFW_PRESS,
                                       50, 150))
                 => iSelected' = 2
          /\ (/\ ResolutionStep
              /\ EliminatedCells = {<<0, 0>>, <<0, 1>>}
              /\ attempts = 1 /\ score = 1 /\ iSelected = 2)
                 => /\ RemovedByStep = 1
                    /\ eliminated'[<<1, 0>>]
                    /\ attempts' = 2
                    /\ score' = 0
                    /\ ~gameOver'
          /\ (/\ EliminatedCells = {<<0, 0>>, <<0, 1>>, <<1, 0>>}
              /\ mouse_button_callback(GLFW_MOUSE_BUTTON_LEFT, GLFW_PRESS,
                                       150, 150))
                 => iSelected' = 3
          /\ (/\ ResolutionStep
              /\ EliminatedCells = {<<0, 0>>, <<0, 1>>, <<1, 0>>}
              /\ attempts = 2 /\ iSelected = 3)
                 => /\ RemovedByStep = 1
                    /\ eliminated'[<<1, 1>>]
                    /\ gameOver']_vars

\* The scenario has been played to its end.
C10_Witness ==
    /\ color = ScenarioGrid
    /\ gameOver
    /\ attempts = 3
    /\ score = 0

\* C11: Reset restores the initial state.  The step in which resetGame runs,
\* taken from any state, leaves every cell active, attempts = 0, score = 0,
\* gameOver false and no selection pending; and a pending selection is always
\* the index of a cell clicked since the game was last reset, so a click
\* recorded before a restart is never resolved against the new grid.  The
\* first conjunct reads: a step that ends in any other state is not a reset.
C11_ResetRestoresInitialState ==
    [][/\ ~(/\ \A c \in Cells : ~eliminated'[c]
             /\ attempts' = 0
             /\ score' = 0
             /\ ~gameOver'
             /\ iSelected' = -1)
            => ~ResetStep
       /\ iSelected' >= 0 => iSelected' \in unresolved']_vars

\* The game has been reset in the middle of a game: the last frame drew a
\* grid with eliminated cells, and every cell is active again.
C11_Witness ==
    /\ frame # {} /\ frame # Cells
    /\ EliminatedCells = {}
    /\ attempts = 0 /\ score = 0 /\ iSelected = -1
    /\ pc = "render"

\* C12: Determinism of layout.  Whatever colours were drawn and whatever the
\* state resetGame was called in, cell (row, col) has its centre at
\* (col * QUAD_W + QUAD_W / 2, row * QUAD_H + QUAD_H / 2) and the size
\* (QUAD_W, QUAD_H).
C12_LayoutDeterministic ==
    \A c \in Cells :
        /\ 2 * position[c][1] = (2 * c[2] + 1) * QUAD_W
        /\ 2 * position[c][2] = (2 * c[1] + 1) * QUAD_H
        /\ dimensions[c] = <<QUAD_W, QUAD_H>>

\* The game was reset in the middle of a game, with new colours, and the
\* second cell of the first row is centred at (150, 50).
C12_Witness ==
    /\ frame # {} /\ frame # Cells
    /\ EliminatedCells = {}
    /\ pc = "poll"
    /\ color[<<0, 0>>] # color[<<0, 1>>]
    /\ position[<<0, 1>>] = <<150, 50>>

\* C13: The count of a pass.  When a selection is pending, the count
\* eliminarSimilares returns is at least 1 and equals the number of cells
\* whose eliminated flag the call changes from false to true, the selected
\* cell included, and the selection is cleared afterwards.
C13_RemovedCount ==
    [][ResolutionStep =>
          LET res == eliminarSimilares(eliminated, iSelected, COLOR_TOLERANCE)
          IN /\ res.removedCount >= 1
             /\ res.removedCount =
                    Cardinality({c \in Cells :
                                    ~eliminated[c] /\ res.eliminated[c]})
             /\ res.removedCount = RemovedByStep
             /\ res.iSelected = -1
             /\ iSelected' = -1]_vars

\* A pass has removed more than the selected cell, on a grid where another
\* pass had run before, and a cell is left.
C13_Witness ==
    /\ pc = "render"
    /\ attempts >= 2
    /\ Cardinality(EliminatedCells) > attempts
    /\ ~gameOver
    /\ iSelected = -1

\* C14: attempts counts the resolutions since the last reset.  It is 0
\* initially and after every reset, every resolution of a pending selection
\* adds exactly 1, and no other step (a click, another event, a loop
\* iteration without a selection, a render, the game ending) changes it.
\* Each implication is written from the value of attempts to the kind of step.
C14_AttemptsCountsResolutions ==
    /\ attempts = 0
    /\ [][/\ attempts' # 0 => ~ResetStep
          /\ attempts' # attempts + 1 => ~ResolutionStep
          /\ attempts' # attempts => (ResolutionStep \/ ResetStep)]_vars

\* One resolution has run since a reset made in the middle of a game: a cell
\* the last frame did not draw is active.
C14_Witness ==
    /\ pc = "render"
    /\ attempts = 1
    /\ frame # {}
    /\ \E c \in Cells \ frame : ~eliminated[c]

\* C15: Callbacks only record intent, as claimed.  A step in which the mouse
\* button callback or the key callback for R runs changes no cell's
\* eliminated flag or colour, nor score, attempts or gameOver: the grid is
\* scanned and reinitialised by the main loop only.
C15_CallbacksOnlyRecordIntentAsClaimed ==
    [][(LeftClick \/ OtherMouseEvent \/ RestartKey) =>
          UNCHANGED <<eliminated, color, score, attempts, gameOver>>]_vars

\* C16: selectAt.  A left click at (x, y) computes col as x - QUAD_W / 2
\* integer-divided by QUAD_W, the quotient cut toward zero as the cast to int
\* does, and row likewise from y.  If (row, col) is outside the grid, or the
\* game is over, or the cell is eliminated, the selection is left as it was;
\* otherwise it becomes row * cols + col.  In neither case does the callback
\* eliminate a cell.  Stated for every state in which events are polled: the
\* callback cannot be delivered at (x, y) and end in any other way.
C16_SelectAt ==
    pc = "poll" =>
       \A x \in CursorCoords(cols, QUAD_W), y \in CursorCoords(rows, QUAD_H) :
          LET dx == x - QUAD_W \div 2
              dy == y - QUAD_H \div 2
              col == IF dx >= 0 THEN dx \div QUAD_W
                     ELSE -((-dx) \div QUAD_W)
              row == IF dy >= 0 THEN dy \div QUAD_H
                     ELSE -((-dy) \div QUAD_H)
              rejected ==
                  \/ row < 0 \/ row >= rows
                  \/ col < 0 \/ col >= cols
                  \/ gameOver
                  \/ eliminated[<<row, col>>]
              expected == IF rejected THEN iSelected ELSE row * cols + col
          IN /\ ENABLED mouse_button_callback(GLFW_MOUSE_BUTTON_LEFT,
                                              GLFW_PRESS, x, y)
             /\ ~ENABLED (/\ mouse_button_callback(GLFW_MOUSE_BUTTON_LEFT,
                                                   GLFW_PRESS, x, y)
                          /\ ~(/\ iSelected' = expected
                               /\ eliminated' = eliminated))

\* In the middle of a game on the 2 x 2 grid, a click on the last cell is
\* recorded as index 3.
C16_Witness ==
    /\ rows = 2 /\ cols = 2
    /\ EliminatedCells # {}
    /\ iSelected = 3
    /\ pc = "poll"

\* C17: Poll, resolve, render, as claimed.  When the grid is rendered no
\* selection is pending, the cells drawn are exactly the cells that are not
\* eliminated, and no cell clicked validly during the poll of the same
\* iteration is drawn.
C17_PollResolveRenderAsClaimed ==
    [][RenderFrame =>
          /\ iSelected = -1
          /\ frame' = {c \in Cells : ~eliminated[c]}
          /\ \A n \in unresolved : CellOf(n) \notin frame']_vars

\* C18: The status text.  The window title changes only in a step in which
\* resetGame or a resolution runs, never in a click, ignored or not; and
\* whenever a frame is rendered the title shows the current score and
\* attempts and carries the end-of-game text if and only if the game is
\* over.
C18_StatusText ==
    [][/\ title' # title =>
            /\ ResolutionStep \/ ResetStep
            /\ ~LeftClick
            /\ ~OtherMouseEvent
       /\ RenderFrame =>
            /\ title.score = score
            /\ title.attempts = attempts
            /\ title.fim <=> gameOver]_vars

\* The frame after the last resolution has been rendered, with the
\* end-of-game text in the title.
C18_Witness ==
    /\ pc = "poll"
    /\ gameOver
    /\ frame = {}
    /\ title.fim
    /\ title.attempts = attempts /\ attempts >= 2
    /\ title.score = score

\* C19: Click-to-cell correspondence, as claimed.  While the game is not
\* over, a left click at a pixel inside the rectangle drawn for a cell that
\* is not eliminated records exactly the index of that cell.
C19_ClickHitsDrawnCellAsClaimed ==
    [][\A x \in CursorCoords(cols, QUAD_W), y \in CursorCoords(rows, QUAD_H) :
          \A c \in Cells :
              (/\ ~gameOver
               /\ ~eliminated[c]
               /\ DrawnAt(c, x, y)
               /\ mouse_button_callback(GLFW_MOUSE_BUTTON_LEFT, GLFW_PRESS,
                                        x, y))
                  => iSelected' = c[1] * cols + c[2]]_vars

\* C20: The game terminates.  Every resolution eliminates at least one cell
\* that was active before it, so attempts never exceeds the number of
\* eliminated cells, which is at most rows * cols; and in a game in which no
\* restart is requested, if valid clicks keep arriving (again and again a
\* selection is pending, until the game is over or the window closed), the
\* game is eventually over or the window closed.
C20_Termination ==
    /\ [][ResolutionStep => RemovedByStep >= 1]_vars
    /\ [](/\ attempts <= Cardinality(EliminatedCells)
          /\ attempts <= rows * cols)
    /\ []<>(iSelected >= 0 \/ gameOver \/ pc = "done")
           => <>(gameOver \/ pc = "done")

\* The game has ended after as many resolutions as there are cells.
C20_Witness ==
    /\ gameOver
    /\ attempts = rows * cols
    /\ pc = "render"

\* C21: In every reachable state the score is at most the number of
\* eliminated cells minus attempts; in particular it never exceeds
\* rows * cols - 1.
C21_ScoreBound ==
    /\ score <= Cardinality(EliminatedCells) - attempts
    /\ score <= rows * cols - 1

\* One resolution has removed every cell of a grid of one colour: the score
\* is rows * cols - 1, the largest the bound allows.
C21_Witness ==
    /\ attempts = 1
    /\ Cardinality(EliminatedCells) = rows * cols
    /\ score = rows * cols - 1
    /\ score = Cardinality(EliminatedCells) - attempts

\* C22: Progress is always possible.  In every reachable state in which the
\* game is not over, every cell that is not eliminated has a pixel inside
\* the window area [0, cols * QUAD_W) x [0, rows * QUAD_H) on which a left
\* click passes the tests of the callback with that cell's index; and while
\* events are being polled the callback can be delivered there and records
\* that index as the selection.
C22_EveryActiveCellClickable ==
    ~gameOver =>
        \A c \in Cells :
            ~eliminated[c] =>
                \E x \in {p \in CursorCoords(cols, QUAD_W) :
                              0 <= p /\ p < cols * QUAD_W},
                   y \in {p \in CursorCoords(rows, QUAD_H) :
                              0 <= p /\ p < rows * QUAD_H} :
                    /\ ClickSelects(GLFW_MOUSE_BUTTON_LEFT, GLFW_PRESS, x, y)
                    /\ LinearIndex(ClickRow(y), ClickCol(x))
                           = c[1] * cols + c[2]
                    /\ pc = "poll" =>
                           ENABLED (/\ mouse_button_callback(
                                           GLFW_MOUSE_BUTTON_LEFT,
                                           GLFW_PRESS, x, y)
                                    /\ iSelected' = c[1] * cols + c[2])

\* In the middle of a game on the 1 x 3 grid, the last cell of the row has
\* been selected by a click.
C22_Witness ==
    /\ rows = 1 /\ cols = 3
    /\ eliminated[<<0, 0>>]
    /\ ~gameOver
    /\ iSelected = 2
    /\ pc = "poll"

====
